---- MODULE Spec2Model ----
(***************************************************************************)
(* Leapfrog Triejoin triangle counter (src/src/main.rs).                   *)
(*                                                                         *)
(* The module models                                                       *)
(*   - the trie cursor Index (Position, new, seek, up, down, reset, value, *)
(*     next) as operators over a relation and a position;                  *)
(*   - the join driver of main (three nested while-let loops over the      *)
(*     cursors r, s, t) as a state machine, one action per loop iteration; *)
(*   - a harness that applies arbitrary Index operations to one cursor.    *)
(*                                                                         *)
(* Indices are 0-based as in the source; TLA+ sequences are 1-based, so    *)
(* the entry at index i of a vector d is d[i + 1].                         *)
(***************************************************************************)
EXTENDS Integers, Sequences, FiniteSets, TLC

\* ------------------------------------------------------------------ bounds
\* Stored keys and values are drawn from 1..MaxVal.
MaxVal == 3
\* A relation has at most MaxEntries keys.
MaxEntries == 3
\* A value list has at most MaxLen values.
MaxLen == 3
\* The harness lets next() run a cursor at most MaxPast slots past the end.
MaxPast == 1
\* The relations of the harness store at most MaxEdges values in all.
MaxEdges == 3

\* ------------------------------------------------------- relations (data)
\* The strictly increasing sequence of the elements of a finite set of numbers.
RECURSIVE SortedSeq(_)
SortedSeq(S) ==
    IF S = {} THEN <<>>
    ELSE LET m == CHOOSE x \in S : \A y \in S : x <= y
         IN  <<m>> \o SortedSeq(S \ {m})

\* Strictly increasing sequences over 1..MaxVal of length at most n.
IncreasingSeqs(n) ==
    {SortedSeq(S) : S \in {T \in SUBSET (1..MaxVal) : Cardinality(T) <= n}}

ValueLists == IncreasingSeqs(MaxLen)

\* Vec<(u64, Vec<u64>)>: an entry is <<key, values>>.
MakeRelation(ks, f) == [n \in 1..Len(ks) |-> <<ks[n], f[n]>>]

\* data is a relation with keys strictly increasing and each value list
\* strictly increasing, within the bounds.
IsBoundedRelation(d) ==
    \E ks \in IncreasingSeqs(MaxEntries) :
        \E f \in [1..Len(ks) -> ValueLists] : d = MakeRelation(ks, f)

RECURSIVE SumLen(_, _)
SumLen(d, n) == IF n = 0 THEN 0 ELSE Len(d[n][2]) + SumLen(d, n - 1)

\* The number of (key, value) pairs a relation stores.
Edges(d) == SumLen(d, Len(d))

\* The relation in the comment at the head of main.
Fixture ==
    << <<1, <<2, 3, 4>>>>,
       <<2, <<4, 5>>>>,
       <<3, <<4, 6, 7>>>>,
       <<4, <<5, 7, 8>>>>,
       <<5, <<8>>>>,
       <<6, <<7>>>>,
       <<7, <<8>>>> >>

Keys(d) == [n \in 1..Len(d) |-> d[n][1]]

\* ------------------------------------------------------------- Position
Upper(i) == <<"Upper", i>>
Lower(i, j) == <<"Lower", i, j>>
\* The cursor of a thread that panicked (panic!() or an index out of bounds).
Panic == <<"Panic">>

IsUpper(p) == p[1] = "Upper"
IsLower(p) == p[1] = "Lower"

\* Option<u64>
None == <<>>
Some(x) == <<x>>

\* ------------------------------------------------------------------ Index
new == Upper(0)

\* slice::binary_search: the loop halves the window [base, base + size).
RECURSIVE bsearch_loop(_, _, _, _)
bsearch_loop(q, v, base, size) ==
    IF size > 1
    THEN LET half == size \div 2
             mid  == base + half
         IN  bsearch_loop(q, v, IF q[mid + 1] > v THEN base ELSE mid, size - half)
    ELSE base

binary_search_floor(q, v) ==
    IF Len(q) = 0 THEN 0 ELSE bsearch_loop(q, v, 0, Len(q))

\* (Ok(idx) | Err(idx)): the index of v, or the insertion point of v.
binary_search(q, v) ==
    IF Len(q) = 0 THEN 0
    ELSE LET base == bsearch_loop(q, v, 0, Len(q))
         IN  IF q[base + 1] = v THEN base
             ELSE IF q[base + 1] < v THEN base + 1 ELSE base

seek_top(d, p, v) == Upper(binary_search(Keys(d), v))

\* Skips the search when the cursor already produces a value >= v.
seek_forward(d, p, v) ==
    IF IsUpper(p)
    THEN IF p[2] < Len(d) /\ d[p[2] + 1][1] >= v
         THEN p
         ELSE Upper(binary_search(Keys(d), v))
    ELSE IF p[2] < Len(d)
         THEN IF p[3] < Len(d[p[2] + 1][2]) /\ d[p[2] + 1][2][p[3] + 1] >= v
              THEN p
              ELSE Lower(p[2], binary_search(d[p[2] + 1][2], v))
         ELSE Panic

seek(d, p, v) ==
    IF IsUpper(p)
    THEN Upper(binary_search(Keys(d), v))
    ELSE IF p[2] < Len(d)
         THEN Lower(p[2], binary_search(d[p[2] + 1][2], v))
         ELSE Panic   \* self.data[*i]: index out of bounds

up_lenient(p) == IF IsLower(p) THEN Upper(p[2]) ELSE p

up_noop(p) == p

up(p) == IF IsLower(p) THEN Upper(p[2]) ELSE Panic

down_skip(p) == IF IsUpper(p) THEN Lower(p[2], 1) ELSE Panic

down_first(p) == IF IsUpper(p) THEN Lower(0, 0) ELSE Panic

down(p) == IF IsUpper(p) THEN Lower(p[2], 0) ELSE Panic

reset_forget(p) == IF IsUpper(p) THEN Upper(0) ELSE Lower(0, 0)

reset_unbind(p) == IF IsUpper(p) THEN Upper(0) ELSE Upper(p[2])

reset_keep(p) == IF IsUpper(p) THEN Upper(0) ELSE p

reset(p) == IF IsUpper(p) THEN Upper(0) ELSE Lower(p[2], 0)

value_lax(d, p) ==
    IF IsUpper(p)
    THEN IF p[2] < Len(d) THEN Some(d[p[2] + 1][1]) ELSE None
    ELSE IF p[2] < Len(d)
         THEN IF p[3] < Len(d[p[2] + 1][2])
              THEN Some(d[p[2] + 1][2][p[3] + 1])
              ELSE Some(0)
         ELSE None

value(d, p) ==
    IF IsUpper(p)
    THEN IF p[2] < Len(d) THEN Some(d[p[2] + 1][1]) ELSE None
    ELSE IF p[2] < Len(d) /\ p[3] < Len(d[p[2] + 1][2])
         THEN Some(d[p[2] + 1][2][p[3] + 1])
         ELSE None

next_skip(p) == IF IsUpper(p) THEN Upper(p[2] + 2) ELSE Lower(p[2], p[3] + 1)

next_stay(p) == p

next_outer(p) == IF IsUpper(p) THEN Upper(p[2] + 1) ELSE Lower(p[2] + 1, p[3])

next(p) == IF IsUpper(p) THEN Upper(p[2] + 1) ELSE Lower(p[2], p[3] + 1)

\* ------------------------------------------------------------------ state
VARIABLES
    data,      \* the shared relation (Rc<Vec<(u64, Vec<u64>)>>)
    r, s, t,   \* main: the level of the three cursors
    count,     \* main: the number of triangles found
    matches,   \* main: the triangles found, in the order they are found
    sought,    \* main: the seek of the last loop iteration, if it made one
    bound,     \* main: the values a was bound to, in the order of binding
    pc,        \* main: "L1" | "L2" | "L3" (the loop whose condition is next),
               \*       "done" (println reached), "panic" (aborted), "idle"
    cur,       \* harness: the level of the cursor under test
    before,    \* harness: the level of that cursor before the last call
    last,      \* harness: the last call made on it
    arg,       \* harness: the target of the last call if it was seek, else 0
    follows    \* harness: the last call was up() right after down(), or reset()
               \*          right after reset()

vars == <<data, r, s, t, count, matches, sought, bound, pc,
          cur, before, last, arg, follows>>
driverVars == <<r, s, t, count, matches, sought, bound, pc>>
harnessVars == <<cur, before, last, arg, follows>>

UpOnly(p) == up(p)

\* x.up(); x.next();  A panic unwinds: next() does not run after it.
UpNext(p) == IF up(p) = Panic THEN Panic ELSE next(up(p))

\* ------------------------------------------------------------ join driver
\* x.seek(v) at loop level lvl took cursor x from position from to position to.
Sought(x, lvl, v, from, to) == <<x, lvl, v, from, to>>
NoSeek == <<>>

\* The cursors as left by the statements of one loop iteration, or the abort.
Commit(nr, ns, nt, npc) ==
    IF Panic \in {nr, ns, nt}
    THEN pc' = "panic" /\ UNCHANGED <<r, s, t>>
    ELSE r' = nr /\ s' = ns /\ t' = nt /\ pc' = npc

\* while let (Some(r_a), Some(t_a)) = (r.value(), t.value()) { match r_a.cmp(&t_a) ..
Level1 ==
    /\ pc = "L1"
    /\ LET r_a == value(data, r)
           t_a == value(data, t)
       IN  IF r_a = None \/ t_a = None
           THEN /\ Commit(r, s, t, "done")
                /\ sought' = NoSeek
                /\ UNCHANGED bound
           ELSE IF r_a[1] < t_a[1]
           THEN /\ Commit(seek(data, r, t_a[1]), s, t, "L1")
                /\ sought' = Sought("r", 1, t_a[1], r, seek(data, r, t_a[1]))
                /\ UNCHANGED bound
           ELSE IF r_a[1] > t_a[1]
           THEN /\ Commit(r, s, seek(data, t, r_a[1]), "L1")
                /\ sought' = Sought("t", 1, r_a[1], t, seek(data, t, r_a[1]))
                /\ UNCHANGED bound
           ELSE /\ Commit(down(r), s, down(t), "L2")
                /\ sought' = NoSeek
                /\ bound' = Append(bound, r_a[1])
    /\ UNCHANGED <<data, count, matches>>
    /\ UNCHANGED harnessVars

\* while let (Some(r_b), Some(s_b)) = (r.value(), s.value()) { .. }
\* and, when the loop ends, the statements that move on to the next a.
Level2 ==
    /\ pc = "L2"
    /\ LET r_b == value(data, r)
           s_b == value(data, s)
       IN  IF r_b = None \/ s_b = None
           THEN /\ Commit(UpNext(r), reset(s), UpNext(t), "L1")
                /\ sought' = NoSeek
           ELSE IF r_b[1] < s_b[1]
           THEN /\ Commit(seek(data, r, s_b[1]), s, t, "L2")
                /\ sought' = Sought("r", 2, s_b[1], r, seek(data, r, s_b[1]))
           ELSE IF r_b[1] > s_b[1]
           THEN /\ Commit(r, seek(data, s, r_b[1]), t, "L2")
                /\ sought' = Sought("s", 2, r_b[1], s, seek(data, s, r_b[1]))
           ELSE /\ Commit(r, down(s), reset(t), "L3")
                /\ sought' = NoSeek
    /\ UNCHANGED <<data, count, matches, bound>>
    /\ UNCHANGED harnessVars

\* while let (Some(s_c), Some(t_c)) = (s.value(), t.value()) { .. }
\* and, when the loop ends, the statements that move on to the next b.
Level3 ==
    /\ pc = "L3"
    /\ LET s_c == value(data, s)
           t_c == value(data, t)
       IN  IF s_c = None \/ t_c = None
           THEN /\ Commit(r, UpNext(s), t, "L2")
                /\ sought' = NoSeek
                /\ UNCHANGED <<count, matches>>
           ELSE IF s_c[1] < t_c[1]
           THEN /\ Commit(r, seek(data, s, t_c[1]), t, "L3")
                /\ sought' = Sought("s", 3, t_c[1], s, seek(data, s, t_c[1]))
                /\ UNCHANGED <<count, matches>>
           ELSE IF s_c[1] > t_c[1]
           THEN /\ Commit(r, s, seek(data, t, s_c[1]), "L3")
                /\ sought' = Sought("t", 3, s_c[1], t, seek(data, t, s_c[1]))
                /\ UNCHANGED <<count, matches>>
           ELSE /\ sought' = NoSeek
                /\ count' = count + 1
                /\ matches' = Append(matches,
                                 <<data[r[2] + 1][1], data[s[2] + 1][1], s_c[1]>>)
                /\ Commit(r, next(s), next(t), "L3")
    /\ UNCHANGED <<data, bound>>
    /\ UNCHANGED harnessVars

\* The state of main when the first loop condition is about to be evaluated.
Init ==
    /\ IsBoundedRelation(data) \/ data = Fixture
    /\ r = new /\ s = new /\ t = new
    /\ count = 0
    /\ matches = <<>>
    /\ sought = NoSeek
    /\ bound = <<>>
    /\ pc = "L1"
    /\ cur = new /\ before = new /\ last = "new" /\ arg = 0 /\ follows = FALSE

Next == Level1 \/ Level2 \/ Level3

Spec == Init /\ [][Next]_vars

\* Init over the relations that store at most MaxEdges values, and Fixture.
FairInit == Init /\ (Edges(data) <= MaxEdges \/ data = Fixture)

\* main is one sequential thread: it keeps running until it returns or aborts.
FairSpec == FairInit /\ [][Next]_vars /\ WF_vars(Next)

\* ---------------------------------------------------------- Index harness
\* Any caller of Index: every call sequence on one cursor over one relation.
\* A call that panics aborts the thread, so nothing is called after it.
Targets == 0..(MaxVal + 1)

\* The harness records the call and the cursor it was made on.
Called(op, v, result) ==
    /\ cur' = result
    /\ before' = cur
    /\ last' = op
    /\ arg' = v
    /\ follows' = \/ op = "up" /\ last = "down"
                  \/ op = "reset" /\ last = "reset"
    /\ UNCHANGED data
    /\ UNCHANGED driverVars

CallNew ==
    /\ cur # Panic
    /\ Called("new", 0, new)

CallSeek ==
    /\ cur # Panic
    /\ \E v \in Targets : Called("seek", v, seek(data, cur, v))

CallUp ==
    /\ cur # Panic
    /\ Called("up", 0, up(cur))

CallDown ==
    /\ cur # Panic
    /\ Called("down", 0, down(cur))

CallReset ==
    /\ cur # Panic
    /\ Called("reset", 0, reset(cur))

\* The length of the vector the cursor's active level runs over.
ActiveLen(d, p) ==
    IF IsUpper(p) THEN Len(d)
    ELSE IF p[2] < Len(d) THEN Len(d[p[2] + 1][2]) ELSE 0

\* The cap keeps every index far below usize::MAX, where += 1 overflows.
CallNext ==
    /\ cur # Panic
    /\ cur[Len(cur)] < ActiveLen(data, cur) + MaxPast
    /\ Called("next", 0, next(cur))

IndexInit ==
    /\ IsBoundedRelation(data)
    /\ Edges(data) <= MaxEdges
    /\ r = new /\ s = new /\ t = new
    /\ count = 0
    /\ matches = <<>>
    /\ sought = NoSeek
    /\ bound = <<>>
    /\ pc = "idle"
    /\ cur = new /\ before = new /\ last = "new" /\ arg = 0 /\ follows = FALSE

IndexNext == CallNew \/ CallSeek \/ CallUp \/ CallDown \/ CallReset \/ CallNext

IndexSpec == IndexInit /\ [][IndexNext]_vars

\* ================================================================== claims
IsExhausted(d, p) == value(d, p) = None

\* The values stored under key k (none if k is not a key).
Vals(d, k) == UNION {{d[n][2][m] : m \in 1..Len(d[n][2])} : n \in {x \in 1..Len(d) : d[x][1] = k}}

KeySet(d) == {d[n][1] : n \in 1..Len(d)}

Universe(d) == KeySet(d) \cup UNION {Vals(d, k) : k \in KeySet(d)}

\* The triples the query Q(a, b, c) <- R(a, b), S(b, c), T(a, c) denotes when
\* R = S = T = d.
Triangles(d) ==
    {tr \in Universe(d) \X Universe(d) \X Universe(d) :
        /\ tr[2] \in Vals(d, tr[1])
        /\ tr[3] \in Vals(d, tr[2])
        /\ tr[3] \in Vals(d, tr[1])}

HasSelfLoop(d) == \E k \in KeySet(d) : k \in Vals(d, k)
HasBackwardEdge(d) == \E k \in KeySet(d) : \E v \in Vals(d, k) : v < k

\* C1: when the join driver finishes, count is the number of triples (a, b, c)
\* with b in a's value list, c in b's value list and c in a's value list, for
\* every sorted relation, self-loops and backward edges included.
C1_CountIsNumberOfTriangles ==
    pc = "done" => count = Cardinality(Triangles(data))

C1_Witness ==
    /\ pc = "done"
    /\ count >= 2
    /\ data # Fixture
    /\ HasSelfLoop(data)
    /\ HasBackwardEdge(data)

FixtureTriples ==
    {<<1, 2, 4>>, <<1, 3, 4>>, <<2, 4, 5>>, <<3, 4, 7>>, <<3, 6, 7>>,
     <<4, 5, 8>>, <<4, 7, 8>>}

\* C2: on the relation of the comment in main the driver reports exactly 7
\* matches, and they are exactly the seven triples of FixtureTriples.
C2_FixtureHasSevenMatches ==
    (data = Fixture /\ pc = "done") =>
        /\ count = 7
        /\ Len(matches) = 7
        /\ {matches[n] : n \in 1..Len(matches)} = FixtureTriples

C2_Witness == data = Fixture /\ pc = "done" /\ Len(matches) > 0

\* The smallest element of the sequence q that is >= v, if there is one.
LeastGE(q, v) ==
    LET ge == {q[n] : n \in {m \in 1..Len(q) : q[m] >= v}}
    IN  IF ge = {} THEN None
        ELSE Some(CHOOSE x \in ge : \A y \in ge : x <= y)

\* C3: seek(v) at Upper leaves the cursor on the smallest stored key >= v, or
\* exhausted if there is none; seek(v) at Lower(i, _) with i in bounds leaves it
\* on the smallest value >= v of the i-th value list, or exhausted.
C3_SeekLandsOnLeastGE ==
    last = "seek" =>
        /\ IsUpper(before) =>
              /\ IsUpper(cur)
              /\ value(data, cur) = LeastGE(Keys(data), arg)
        /\ (IsLower(before) /\ before[2] < Len(data)) =>
              /\ IsLower(cur)
              /\ cur[2] = before[2]
              /\ value(data, cur) = LeastGE(data[before[2] + 1][2], arg)

C3_Witness ==
    /\ last = "seek"
    /\ IsLower(before)
    /\ cur # Panic
    /\ cur[3] > 0
    /\ ~IsExhausted(data, cur)
    /\ value(data, cur)[1] > arg

\* C4: seek never fails: from every cursor state that Index calls can reach,
\* seek(target) completes without a fatal error.
C4_SeekNeverFails == last = "seek" => cur # Panic

\* C5: down() on a cursor at Lower and up() on a cursor at Upper end in a
\* panic; they never return with the cursor changed or unchanged.
C5_MisusePanics ==
    /\ (last = "down" /\ IsLower(before)) => cur = Panic
    /\ (last = "up" /\ IsUpper(before)) => cur = Panic

C5_Witness == last = "down" /\ IsLower(before) /\ cur = Panic

\* C6: the driver never calls down() on a cursor at Lower nor up() on a cursor
\* at Upper: it never aborts, and at each loop condition the cursors are at the
\* level the calls that follow require.
C6_DriverNeverMisuses ==
    /\ pc # "panic"
    /\ pc \in {"L1", "done"} => IsUpper(r) /\ IsUpper(s) /\ IsUpper(t)
    /\ pc = "L2" => IsLower(r) /\ IsUpper(s) /\ IsLower(t)
    /\ pc = "L3" => IsLower(r) /\ IsLower(s) /\ IsLower(t)

C6_Witness == pc = "L2" /\ s[2] > 0 /\ r[2] > 0 /\ count > 0

\* C7: the driver terminates: the level-3 loop and the level-2 loop each end,
\* and the outer loop ends exactly when r or t is exhausted at Upper.
C7_DriverTerminates ==
    /\ <>(pc = "done")
    /\ (pc = "L3") ~> (pc = "L2")
    /\ (pc = "L2") ~> (pc = "L1")
    /\ [](pc = "done" =>
            /\ IsUpper(r) /\ IsUpper(t)
            /\ (IsExhausted(data, r) \/ IsExhausted(data, t)))
    /\ [][(pc = "L1" /\ pc' = "done") <=>
            (pc = "L1" /\ (IsExhausted(data, r) \/ IsExhausted(data, t)))]_vars

C7_Witness ==
    /\ pc = "done"
    /\ Len(data) >= 2
    /\ IsExhausted(data, r)
    /\ count > 0

\* C8: on a cursor at Upper(i), exhausted or not, down() immediately followed
\* by up() leaves the cursor at Upper(i) again.
C8_DownUpRoundTrip ==
    [][(last = "down" /\ IsUpper(before) /\ last' = "up") => cur' = before]_vars

C8_Witness ==
    /\ follows
    /\ last = "up"
    /\ IsUpper(cur)
    /\ cur[2] > 0
    /\ IsExhausted(data, cur)

\* C9: reset() at Upper(i) yields Upper(0), the first key; reset() at
\* Lower(i, j) yields Lower(i, 0), the first value under the same key.
C9_ResetRewinds ==
    last = "reset" =>
        /\ IsUpper(before) =>
              /\ cur = Upper(0)
              /\ Len(data) > 0 => value(data, cur) = Some(data[1][1])
        /\ IsLower(before) =>
              /\ cur = Lower(before[2], 0)
              /\ ~IsExhausted(data, cur) =>
                    value(data, cur) = Some(data[before[2] + 1][2][1])

C9_Witness ==
    /\ last = "reset"
    /\ IsLower(before)
    /\ before[2] > 0
    /\ before[3] > 0
    /\ ~IsExhausted(data, cur)

\* C10: reset() is idempotent: a second reset() right after a reset() leaves
\* the cursor as the first one left it.
C10_ResetIdempotent == (follows /\ last = "reset") => cur = before

C10_Witness ==
    /\ follows
    /\ last = "reset"
    /\ IsLower(cur)
    /\ cur[2] > 0

Degenerate(d) == Len(d) = 0 \/ (Len(d) = 1 /\ Len(d[1][2]) = 0)

\* C12: on an empty relation, and on a relation with one key and an empty
\* value list, the driver finishes with count 0 and never aborts.
C12_DegenerateInputs ==
    Degenerate(data) =>
        /\ <>(pc = "done" /\ count = 0)
        /\ [](pc # "panic" /\ count = 0)

C12_Witness ==
    /\ pc = "done"
    /\ Len(data) = 1
    /\ Len(data[1][2]) = 0
    /\ Len(bound) = 1

\* The index of a position at its active level.
ActiveIdx(p) == p[Len(p)]

\* C14: every seek the driver issues has a target strictly greater than the
\* value the cursor produces, and leaves the cursor at the same level with a
\* strictly greater index: no driver seek moves backward or stays in place.
C14_DriverSeeksMoveForward ==
    sought # NoSeek =>
        /\ ~IsExhausted(data, sought[4])
        /\ sought[3] > value(data, sought[4])[1]
        /\ sought[5] # Panic
        /\ sought[5][1] = sought[4][1]
        /\ ActiveIdx(sought[5]) > ActiveIdx(sought[4])

C14_Witness ==
    /\ sought # NoSeek
    /\ sought[2] = 3
    /\ ActiveIdx(sought[5]) >= ActiveIdx(sought[4]) + 2
    /\ ~IsExhausted(data, sought[5])

\* A position indexes data in bounds, or is exactly one past the end.
InBounds(d, p) ==
    /\ p[2] <= Len(d)
    /\ IsLower(p) => /\ p[2] < Len(d)
                     /\ p[3] <= Len(d[p[2] + 1][2])

\* C15: in every state of the driver each cursor's key index is at most the
\* number of entries, and a cursor at Lower(i, j) has i in bounds and j at most
\* the length of the i-th value list.
C15_CursorsInBounds ==
    /\ pc # "panic"
    /\ InBounds(data, r)
    /\ InBounds(data, s)
    /\ InBounds(data, t)

C15_Witness ==
    /\ pc = "L3"
    /\ Len(data[s[2] + 1][2]) > 0
    /\ s[3] = Len(data[s[2] + 1][2])
    /\ ~IsExhausted(data, t)
    /\ r[2] + 1 = Len(data)

LexLess(x, y) ==
    \/ x[1] < y[1]
    \/ x[1] = y[1] /\ x[2] < y[2]
    \/ x[1] = y[1] /\ x[2] = y[2] /\ x[3] < y[3]

\* C16: the matches are found in strictly increasing lexicographic order of
\* (a, b, c), so none is counted twice, and every common value of the two
\* level-3 lists is counted.
C16_MatchesAscend ==
    /\ \A n \in 1..(Len(matches) - 1) : LexLess(matches[n], matches[n + 1])
    /\ Len(matches) = count
    /\ pc = "done" => {matches[n] : n \in 1..Len(matches)} = Triangles(data)

C16_Witness ==
    /\ pc = "done"
    /\ data # Fixture
    /\ \E n \in 1..(Len(matches) - 1) :
          /\ matches[n][1] = matches[n + 1][1]
          /\ matches[n][2] = matches[n + 1][2]
          /\ matches[n][3] < matches[n + 1][3]

\* C17: whenever a is about to be bound, s is at Upper(0); whenever b is bound
\* and level 3 is entered, t is at Lower(ia, 0) with ia the index of the bound
\* a, the same as r's, and s is at Lower(ib, 0) with ib the index of key b.
C17_RewoundOnBinding ==
    /\ [](pc = "L1" => s = Upper(0))
    /\ [](pc \in {"L2", "L3"} =>
            /\ IsLower(r) /\ IsLower(t) /\ t[2] = r[2]
            /\ bound # <<>>
            /\ r[2] < Len(data)
            /\ data[r[2] + 1][1] = bound[Len(bound)])
    /\ [][(pc = "L2" /\ pc' = "L3") =>
            /\ t' = Lower(r[2], 0)
            /\ s' = Lower(s[2], 0)
            /\ s[2] < Len(data)
            /\ Some(data[s[2] + 1][1]) = value(data, r)]_vars

C17_Witness ==
    /\ pc = "L3"
    /\ r[2] > 0
    /\ r[3] > 0
    /\ s = Lower(s[2], 0)
    /\ t = Lower(r[2], 0)
    /\ matches # <<>>
    /\ matches[Len(matches)][1] = bound[Len(bound)]

\* The number of elements of the sequence q that are < v.
CountBelow(q, v) == Cardinality({n \in 1..Len(q) : q[n] < v})

\* C18: seek, next and reset keep the active level and, at Lower, the bound key
\* index i; down() and up() change the level, and up() keeps i and drops j.
C18_LevelAndKeyFrame ==
    /\ (last \in {"seek", "next", "reset"} /\ cur # Panic) =>
          /\ cur[1] = before[1]
          /\ IsLower(before) => cur[2] = before[2]
    /\ (last = "up" /\ cur # Panic) =>
          /\ IsLower(before)
          /\ cur = Upper(before[2])
    /\ (last = "down" /\ cur # Panic) =>
          /\ IsUpper(before)
          /\ IsLower(cur)
          /\ cur[2] = before[2]

C18_Witness ==
    /\ last = "seek"
    /\ IsLower(before)
    /\ before[2] > 0
    /\ cur # Panic
    /\ cur[3] # before[3]

\* C19: the position after seek(v) depends only on the relation, the level,
\* the bound key index and v: it is the number of elements below v.  A second
\* seek(v) changes nothing, and a seek below the current value moves the cursor
\* backward without failing.
C19_SeekIsStateless ==
    /\ [](last = "seek" =>
            /\ IsUpper(before) => cur = Upper(CountBelow(Keys(data), arg))
            /\ (IsLower(before) /\ before[2] < Len(data)) =>
                   cur = Lower(before[2], CountBelow(data[before[2] + 1][2], arg))
            /\ ~IsExhausted(data, before) => cur # Panic)
    /\ [][(last = "seek" /\ last' = "seek" /\ arg' = arg) => cur' = cur]_vars

C19_Witness ==
    /\ last = "seek"
    /\ IsLower(before)
    /\ ~IsExhausted(data, before)
    /\ arg < value(data, before)[1]
    /\ cur # Panic
    /\ cur[3] < before[3]

\* C20: with r and t over the same relation, every evaluation of the outer loop
\* condition finds r = t = Upper(i) and s at Upper, no level-1 seek is ever
\* made, and the keys are bound as a once each, in ascending order.
C20_OuterCursorsAgree ==
    /\ pc \in {"L1", "done"} => /\ IsUpper(r) /\ t = r /\ IsUpper(s)
                                /\ r[2] <= Len(data)
                                /\ bound = SubSeq(Keys(data), 1, r[2])
    /\ sought # NoSeek => sought[2] # 1
    /\ pc = "done" => bound = Keys(data)

C20_Witness ==
    /\ pc = "done"
    /\ Len(bound) >= 3
    /\ \E n \in 1..Len(data) : Len(data[n][2]) = 0

====
